---------------------------- MODULE Spec2Model ----------------------------
(***************************************************************************)
(* Model of the projectile simulation of "Project 1: realistic projectile  *)
(* motion": the Vector3D / Vector4D value types, the Projectile force      *)
(* model (calculateAcceleration), the Trajectory recorder and the          *)
(* rk4Simulation loop of Processing.cpp, at statement granularity; the CSV *)
(* output and the output filename of Run::Run; the generic rk4Simulation   *)
(* of "Project 2: driven damped oscillations"; factorial of the example    *)
(* tests.                                                                  *)
(*                                                                         *)
(* A C++ double is modelled as a decimal fixed-point number with           *)
(* resolution 1/D: addition and subtraction are exact, multiplication,     *)
(* division and sqrt are computed exactly and then chopped to the grid.    *)
(* Every value the drag-free runs produce lies on the grid, so those runs  *)
(* are computed in exact arithmetic.                                       *)
(***************************************************************************)
EXTENDS Integers, Sequences, FiniteSets, TLC

(***************************************************************************)
(* double                                                                  *)
(***************************************************************************)
\* limb base of the fixed-point representation of a double
B == 20000
\* grid units per 1.0: a double is <<w, f>> = w + f/D with 0 <= f < D
D == B * B

Zero == <<0, 0>>
One == <<1, 0>>
Ulp == <<0, 1>>
\* the integer literal n as a double
FromInt(n) == <<n, 0>>
\* the decimal literal w + num/den (den divides D, 0 <= num < den)
Dec(w, num, den) == <<w, num * (D \div den)>>

\* an arithmetic result outside the modelled range stops the evaluation
OutOfRange == CHOOSE v \in {} : TRUE

Norm(w, f) == <<w + (f \div D), f % D>>

Add(a, b) == Norm(a[1] + b[1], a[2] + b[2])
Neg(a) == IF a[2] = 0 THEN <<-a[1], 0>> ELSE <<-a[1] - 1, D - a[2]>>
Sub(a, b) == Add(a, Neg(b))
Less(a, b) == a[1] < b[1] \/ (a[1] = b[1] /\ a[2] < b[2])
Leq(a, b) == a = b \/ Less(a, b)
IsNeg(a) == a[1] < 0
Abs(a) == IF IsNeg(a) THEN Neg(a) ELSE a

\* the limbs <<n4, n3, n2, n1, n0>> of a non-negative value
\* n4 + n3/B + n2/B^2 + n1/B^3 + n0/B^4
Lift(a) == <<a[1], a[2] \div B, a[2] % B, 0, 0>>

\* the exact product of two non-negative doubles, as limbs
Prod5(a, b) ==
    LET w1 == a[1]  h1 == a[2] \div B  l1 == a[2] % B
        w2 == b[1]  h2 == b[2] \div B  l2 == b[2] % B
        c0 == l1 * l2
        c1 == h1 * l2 + l1 * h2 + (c0 \div B)
        c2 == w1 * l2 + h1 * h2 + l1 * w2 + (c1 \div B)
        c3 == w1 * h2 + h1 * w2 + (c2 \div B)
        c4 == w1 * w2 + (c3 \div B)
    IN  <<c4, c3 % B, c2 % B, c1 % B, c0 % B>>

LimbLeq(p, q) ==
    \/ p = q
    \/ \E i \in 1..5 : p[i] < q[i] /\ \A j \in 1..(i - 1) : p[j] = q[j]

\* sign is TRUE for a non-negative result of magnitude m
Signed(m, sign) == IF sign THEN m ELSE Neg(m)

\* the limbs of a product chopped to the grid
Chop(p) == <<p[1], p[2] * B + p[3]>>
MulAbs(a, b) == Chop(Prod5(a, b))
Mul(a, b) == Signed(MulAbs(Abs(a), Abs(b)), IsNeg(a) = IsNeg(b))

\* a non-negative double divided by the integer k >= 1
DivInt(a, k) ==
    LET x1 == (a[1] % k) * B + (a[2] \div B)
        x2 == (x1 % k) * B + (a[2] % B)
    IN  <<a[1] \div k, (x1 \div k) * B + (x2 \div k)>>

\* limb sequences (most significant limb first) for the long division
Front(v) == SubSeq(v, 1, Len(v) - 1)
Last(v) == v[Len(v)]

\* the limbs of v * k + carry for one limb k: one limb more than v
RECURSIVE MulLimbs(_, _, _)
MulLimbs(v, k, carry) ==
    IF v = <<>> THEN <<carry>>
    ELSE Append(MulLimbs(Front(v), k, (Last(v) * k + carry) \div B),
                (Last(v) * k + carry) % B)

\* the limbs of r - t - borrow for r >= t of the same length
RECURSIVE SubLimbs(_, _, _)
SubLimbs(r, t, borrow) ==
    IF r = <<>> THEN <<>>
    ELSE Append(SubLimbs(Front(r), Front(t),
                         IF Last(r) - Last(t) - borrow < 0 THEN 1 ELSE 0),
                (Last(r) - Last(t) - borrow) % B)

LessLimbs(p, q) ==
    \E i \in 1..Len(p) : p[i] < q[i] /\ \A j \in 1..(i - 1) : p[j] = q[j]

RECURSIVE StripZeros(_)
StripZeros(v) == IF Len(v) > 1 /\ v[1] = 0 THEN StripZeros(Tail(v)) ELSE v

\* the quotient digit q of rext by v (as v0, with a leading zero limb) and
\* the remainder left, from the estimate q >= the digit with t = v * q
RECURSIVE FixDigit(_, _, _, _)
FixDigit(rext, v0, q, t) ==
    IF LessLimbs(rext, t) THEN FixDigit(rext, v0, q - 1, SubLimbs(t, v0, 0))
    ELSE <<q, SubLimbs(rext, t, 0)>>

EstimateDigit(rext, v) ==
    IF (rext[1] * B + rext[2]) \div v[1] < B THEN (rext[1] * B + rext[2]) \div v[1]
    ELSE B - 1

\* schoolbook long division of the limbs u by v (top limb of v >= B \div 2),
\* r the running remainder: the quotient's limbs
RECURSIVE LongDiv(_, _, _, _)
LongDivStep(u, v, fx, digits) == LongDiv(Tail(u), v, Tail(fx[2]), Append(digits, fx[1]))
LongDivDigit(u, v, rext, digits, q) ==
    LongDivStep(u, v, FixDigit(rext, <<0>> \o v, q, MulLimbs(v, q, 0)), digits)
LongDiv(u, v, r, digits) ==
    IF u = <<>> THEN digits
    ELSE LongDivDigit(u, v, Append(r, Head(u)), digits,
                      EstimateDigit(Append(r, Head(u)), v))

\* the limbs of floor(a * B^2 / b), u and v scaled by f to make v's top limb large
ScaledDiv(u, v, f) ==
    LongDiv(MulLimbs(u, f, 0), Tail(MulLimbs(v, f, 0)),
            [i \in 1..Len(v) |-> 0], <<>>)

\* a quotient beyond the modelled range is out of range
QuotientOf(q) ==
    IF q[1] # 0 \/ q[2] # 0 \/ q[3] # 0 THEN OutOfRange
    ELSE <<q[4], q[5] * B + q[6]>>

DivLimbs(u, v) == QuotientOf(ScaledDiv(u, v, B \div (v[1] + 1)))

\* a / b for a >= 0, b > 0, chopped to the grid
DivAbs(a, b) ==
    IF a[1] >= B \/ b[1] >= B THEN OutOfRange
    ELSE IF b[2] = 0 THEN DivInt(a, b[1])
    ELSE DivLimbs(Lift(a), StripZeros(<<b[1], b[2] \div B, b[2] % B>>))

\* a / b for b # 0
Div(a, b) == Signed(DivAbs(Abs(a), Abs(b)), IsNeg(a) = IsNeg(b))

\* the least g = from * 2^k with g * g > n
RECURSIVE RootAbove(_, _)
RootAbove(n, from) == IF from * from > n THEN from ELSE RootAbove(n, 2 * from)

\* Newton's iteration y -> (y + x / y) / 2 from y >= sqrt(x), down to the
\* largest grid value whose square is <= x
RECURSIVE SqrtNewton(_, _)
SqrtNext(x, y, y2) == IF Less(y2, y) THEN SqrtNewton(x, y2) ELSE y
SqrtNewton(x, y) == SqrtNext(x, y, DivInt(Add(y, DivAbs(x, y)), 2))

\* std::sqrt of a non-negative double, chopped to the grid
Sqrt(x) == IF x = Zero THEN Zero ELSE SqrtNewton(x, FromInt(RootAbove(x[1], 1)))

(***************************************************************************)
(* Vector3D, Vector4D                                                      *)
(***************************************************************************)
Vector3D(x_, y_, z_) == [x |-> x_, y |-> y_, z |-> z_]
Vector4D(x_, y_, z_, t_) == [x |-> x_, y |-> y_, z |-> z_, t |-> t_]
ZeroVector == [x |-> Zero, y |-> Zero, z |-> Zero]

\* Vector3D::operator+
VecAdd(a, b) == [x |-> Add(a.x, b.x), y |-> Add(a.y, b.y), z |-> Add(a.z, b.z)]

\* the subtraction with its operands exchanged
VecSubReversed(a, b) == [x |-> Sub(b.x, a.x), y |-> Sub(b.y, a.y), z |-> Sub(b.z, a.z)]

\* Vector3D::operator-
VecSub(a, b) == [x |-> Sub(a.x, b.x), y |-> Sub(a.y, b.y), z |-> Sub(a.z, b.z)]

\* Vector3D::operator*(double)
VecScale(a, scalar) ==
    [x |-> Mul(a.x, scalar), y |-> Mul(a.y, scalar), z |-> Mul(a.z, scalar)]
\* Vector3D::operator/(double)
VecDiv(a, scalar) ==
    [x |-> Div(a.x, scalar), y |-> Div(a.y, scalar), z |-> Div(a.z, scalar)]

\* the magnitude without its square root
magnitudeSquared(a) == Add(Add(Mul(a.x, a.x), Mul(a.y, a.y)), Mul(a.z, a.z))

\* Vector3D::magnitude: sqrt(x * x + y * y + z * z)
magnitude(a) == Sqrt(Add(Add(Mul(a.x, a.x), Mul(a.y, a.y)), Mul(a.z, a.z)))

\* Vector3D::normalize, with mag = magnitude()
normalizeBy(a, mag) ==
    IF Less(Zero, mag) THEN VecDiv(a, mag)
    ELSE Vector3D(Zero, Zero, Zero)
normalize(a) == normalizeBy(a, magnitude(a))

\* Vector3D::normalized of vector3d.cpp, with mag = magnitude()
normalizedBy(a, mag) ==
    IF mag = Zero THEN Vector3D(Zero, Zero, Zero)
    ELSE VecDiv(a, mag)
normalized(a) == normalizedBy(a, magnitude(a))

(***************************************************************************)
(* Projectile                                                              *)
(***************************************************************************)
GRAVITY == Dec(9, 81, 100)
\* M_PI = 3.14159265358979..., chopped to the grid
M_PI == <<3, 56637061>>
Half == Dec(0, 1, 2)

\* a constructor that stores SOverM as S, not multiplied by the mass
ProjectileWithSOverM(initialPos, initialVel, initialSpin, m, r, density, SOverM, dragCoeff) ==
    [position |-> initialPos, velocity |-> initialVel, spin |-> initialSpin,
     mass |-> m, radius |-> r, dragCoefficient |-> dragCoeff,
     airDensity |-> density, S |-> SOverM]

\* Projectile::Projectile(initialPos, initialVel, initialSpin, m, r,
\*                        airDensity, SOverM, dragCoeff)
Projectile(initialPos, initialVel, initialSpin, m, r, density, SOverM, dragCoeff) ==
    [position |-> initialPos, velocity |-> initialVel, spin |-> initialSpin,
     mass |-> m, radius |-> r, dragCoefficient |-> dragCoeff,
     airDensity |-> density, S |-> Mul(SOverM, m)]

setVelocity(p, vel) == [p EXCEPT !.velocity = vel]

\* a move that stops the spin as well
moveAndStopSpin(p, pos, vel) ==
    [p EXCEPT !.position = pos, !.velocity = vel, !.spin = Vector3D(Zero, Zero, Zero)]

\* Projectile::move(pos, vel)
move(p, pos, vel) == [p EXCEPT !.position = pos, !.velocity = vel]

getTime(p) == p.position.t

\* grounded only strictly below the ground
isGroundedBelow(p) == Less(p.position.z, Zero) /\ Leq(p.velocity.z, Zero)

\* grounded only when moving strictly downwards
isGroundedFalling(p) == Leq(p.position.z, Zero) /\ Less(p.velocity.z, Zero)

\* position.z <= 0 && velocity.z <= 0
isGrounded(p) == Leq(p.position.z, Zero) /\ Leq(p.velocity.z, Zero)

\* the drag magnitude without the air density factor
dragMagnitudeNoDensity(p, speed) ==
    Mul(Mul(Mul(Mul(Half, speed), speed), p.dragCoefficient),
        Mul(Mul(M_PI, p.radius), p.radius))

\* F_drag = 0.5 * rho * v^2 * Cd * A with A = M_PI * radius * radius
dragMagnitude(p, speed) ==
    Mul(Mul(Mul(Mul(Mul(Half, p.airDensity), speed), speed), p.dragCoefficient),
        Mul(Mul(M_PI, p.radius), p.radius))

\* the drag force directed against the velocity over the ground
dragForceAlongVelocity(p, relativeVelocity, speed) ==
    IF Less(Zero, speed)
    THEN VecScale(VecScale(normalize(p.velocity), FromInt(-1)), dragMagnitude(p, speed))
    ELSE Vector3D(Zero, Zero, Zero)

\* the drag force, with speed = relativeVelocity.magnitude()
dragForceAt(p, relativeVelocity, speed) ==
    IF Less(Zero, speed)
    THEN VecScale(VecScale(normalize(relativeVelocity), FromInt(-1)),
                  dragMagnitude(p, speed))
    ELSE Vector3D(Zero, Zero, Zero)

\* spin x relativeVelocity
magnusCross(spin, rel) ==
    Vector3D(Sub(Mul(spin.y, rel.z), Mul(spin.z, rel.y)),
             Sub(Mul(spin.z, rel.x), Mul(spin.x, rel.z)),
             Sub(Mul(spin.x, rel.y), Mul(spin.y, rel.x)))

\* the net force with the drag taken on the velocity over the ground
totalForceGroundFrame(p, relativeVelocity) ==
    VecAdd(VecAdd(Vector3D(Zero, Zero, Mul(Neg(p.mass), GRAVITY)),
                  dragForceAt(p, p.velocity, magnitude(p.velocity))),
           VecScale(magnusCross(p.spin, relativeVelocity), p.S))

\* the net force on p at relativeVelocity = velocity - wind
totalForce(p, relativeVelocity) ==
    VecAdd(VecAdd(Vector3D(Zero, Zero, Mul(Neg(p.mass), GRAVITY)),
                  dragForceAt(p, relativeVelocity, magnitude(relativeVelocity))),
           VecScale(magnusCross(p.spin, relativeVelocity), p.S))

\* Projectile::calculateAcceleration(wind)
calculateAcceleration(p, w) == VecDiv(totalForce(p, VecSub(p.velocity, w)), p.mass)

(***************************************************************************)
(* Trajectory                                                              *)
(***************************************************************************)
\* an addPoint that puts the point in front
addPointInFront(points, point) == <<point>> \o points

\* Trajectory::addPoint: points.push_back(point)
addPoint(points, point) == Append(points, point)

\* Trajectory::getPoints: return points
getPoints(points) == points

\* Trajectory::getFinalPoint
getFinalPoint(points) ==
    IF points # <<>> THEN points[Len(points)]
    ELSE Vector4D(Zero, Zero, Zero, Zero)

(***************************************************************************)
(* rk4Simulation(proj, timeStep, wind, maxTime)                            *)
(***************************************************************************)
VARIABLES
    proj,        \* the caller's Projectile, passed by reference
    wind,        \* const Vector3D& wind
    timeStep,    \* double timeStep
    maxTime,     \* double maxTime
    trajectory,  \* the points of the local Trajectory
    loc,         \* the locals of the loop body
    pc,          \* the statement the run is at
    proj0,       \* the Projectile as it was at entry
    iters,       \* the number of loop iterations entered so far
    hit          \* TRUE once the ground collision branch has been taken

vars == <<proj, wind, timeStep, maxTime, trajectory, loc, pc, proj0, iters, hit>>

\* runs whose timeStep is not positive are followed for MaxIter iterations
MaxIter == 6

NoLocals ==
    [pos0 |-> Vector4D(Zero, Zero, Zero, Zero), vel0 |-> ZeroVector,
     k1_v |-> ZeroVector, k1_x |-> ZeroVector,
     k2_v |-> ZeroVector, k2_x |-> ZeroVector,
     k3_v |-> ZeroVector, k3_x |-> ZeroVector,
     k4_v |-> ZeroVector, k4_x |-> ZeroVector,
     new_pos |-> Vector4D(Zero, Zero, Zero, Zero), new_vel |-> ZeroVector]

\* the presets of Projectile.h and further arguments of the parameterized
\* constructor: <<initialSpin, mass, radius, airDensity, SOverM, dragCoeff>>
perfectProjectile ==
    <<ZeroVector, One, Dec(0, 1, 10), Zero, Zero, Zero>>
noDragByCoefficient ==
    <<Vector3D(Zero, Zero, One), FromInt(2), Dec(0, 1, 10), Dec(1, 2, 10), Zero, Zero>>
noDragByDensity ==
    <<ZeroVector, One, Dec(0, 1, 2), Zero, Zero, Dec(0, 1, 2)>>
dragOnly ==
    <<ZeroVector, One, Dec(0, 1, 2), Dec(1, 2, 10), Zero, Dec(0, 1, 2)>>
magnusOnly ==
    <<Vector3D(Zero, Zero, One), FromInt(2), Dec(0, 1, 10), Zero, Dec(0, 1, 4), Zero>>
dragAndMagnus ==
    <<Vector3D(Zero, One, FromInt(-1)), Dec(0, 1, 2), Dec(0, 1, 4), Dec(1, 27, 100),
      Dec(0, 4, 100), Dec(0, 1, 2)>>
negativeMass ==
    <<ZeroVector, FromInt(-1), Dec(0, 1, 10), Zero, Zero, Zero>>

DragFree == {perfectProjectile, noDragByCoefficient, noDragByDensity, negativeMass}
Parameters == DragFree \cup {dragOnly, magnusOnly, dragAndMagnus}

Positions ==
    {Vector4D(Zero, Zero, FromInt(10), Zero),
     Vector4D(Zero, Zero, Zero, Zero),
     Vector4D(Zero, Zero, FromInt(-1), Zero),
     Vector4D(One, FromInt(2), Dec(4, 905, 1000), FromInt(2))}
Velocities ==
    {Vector3D(FromInt(3), FromInt(4), Zero),
     Vector3D(FromInt(2), Zero, FromInt(5)),
     Vector3D(One, Zero, FromInt(-2))}
Winds == {ZeroVector, Vector3D(One, FromInt(-1), Zero)}
TimeSteps == {One, Dec(0, 1, 2), Zero, Neg(Dec(0, 1, 2))}
MaxTimes == {FromInt(3), One, FromInt(-1)}

InitRun(p, w, h, mt) ==
    /\ proj = p
    /\ proj0 = p
    /\ wind = w
    /\ timeStep = h
    /\ maxTime = mt
    /\ trajectory = <<>>
    /\ loc = NoLocals
    /\ pc = "entry"
    /\ iters = 0
    /\ hit = FALSE

Init ==
    \E par \in Parameters, pos \in Positions, vel \in Velocities,
       w \in Winds, h \in TimeSteps, mt \in MaxTimes :
        /\ Less(Zero, h) \/ par \in DragFree
        /\ InitRun(Projectile(pos, vel, par[1], par[2], par[3], par[4], par[5], par[6]),
                   w, h, mt)

\* Trajectory trajectory; trajectory.addPoint(proj.getPosition());
Start ==
    /\ pc = "entry"
    /\ trajectory' = addPoint(trajectory, proj.position)
    /\ pc' = "loop"
    /\ UNCHANGED <<proj, wind, timeStep, maxTime, loc, proj0, iters, hit>>

\* the loop condition without its time test
LoopConditionNoTimeout(p, mt) == ~isGrounded(p)

\* the loop condition with <= for < in its time test
LoopConditionInclusive(p, mt) == ~isGrounded(p) /\ Leq(getTime(p), mt)

\* !proj.isGrounded() && proj.getTime() < maxTime
LoopCondition(p, mt) == ~isGrounded(p) /\ Less(getTime(p), mt)

\* while (!proj.isGrounded() && proj.getTime() < maxTime)
LoopTest ==
    /\ pc = "loop"
    /\ Less(Zero, timeStep) \/ iters < MaxIter
    /\ IF LoopCondition(proj, maxTime)
       THEN pc' = "k1" /\ iters' = iters + 1
       ELSE pc' = "return" /\ iters' = iters
    /\ UNCHANGED <<proj, wind, timeStep, maxTime, trajectory, loc, proj0, hit>>

\* an RK4 stage whose acceleration is evaluated at the saved velocity vel0
StageAtSavedVelocity(p, vel, kv, kx) ==
    loc' = [loc EXCEPT ![kv] = VecScale(calculateAcceleration(setVelocity(p, loc.vel0), wind),
                                        timeStep),
                       ![kx] = VecScale(vel, timeStep)]

\* one RK4 stage at velocity vel: k_a = proj.calculateAcceleration(wind),
\* k_v = k_a * timeStep, k_x = vel * timeStep
Stage(p, vel, kv, kx) ==
    loc' = [loc EXCEPT ![kv] = VecScale(calculateAcceleration(p, wind), timeStep),
                       ![kx] = VecScale(vel, timeStep)]

\* save the current state; k1: acceleration and velocity at current state
StageK1 ==
    /\ pc = "k1"
    /\ loc' = [loc EXCEPT !.pos0 = proj.position, !.vel0 = proj.velocity,
                          !.k1_v = VecScale(calculateAcceleration(proj, wind), timeStep),
                          !.k1_x = VecScale(proj.velocity, timeStep)]
    /\ pc' = "k2"
    /\ UNCHANGED <<proj, wind, timeStep, maxTime, trajectory, proj0, iters, hit>>

\* k2: acceleration at midpoint using k1 (vel_mid1 = vel0 + k1_v * 0.5)
StageK2 ==
    /\ pc = "k2"
    /\ proj' = setVelocity(proj, VecAdd(loc.vel0, VecScale(loc.k1_v, Half)))
    /\ Stage(proj', proj'.velocity, "k2_v", "k2_x")
    /\ pc' = "k3"
    /\ UNCHANGED <<wind, timeStep, maxTime, trajectory, proj0, iters, hit>>

\* k3: acceleration at midpoint using k2 (vel_mid2 = vel0 + k2_v * 0.5)
StageK3 ==
    /\ pc = "k3"
    /\ proj' = setVelocity(proj, VecAdd(loc.vel0, VecScale(loc.k2_v, Half)))
    /\ Stage(proj', proj'.velocity, "k3_v", "k3_x")
    /\ pc' = "k4"
    /\ UNCHANGED <<wind, timeStep, maxTime, trajectory, proj0, iters, hit>>

\* k4: acceleration at endpoint using k3 (vel_end = vel0 + k3_v)
StageK4 ==
    /\ pc = "k4"
    /\ proj' = setVelocity(proj, VecAdd(loc.vel0, loc.k3_v))
    /\ Stage(proj', proj'.velocity, "k4_v", "k4_x")
    /\ pc' = "update"
    /\ UNCHANGED <<wind, timeStep, maxTime, trajectory, proj0, iters, hit>>

\* the slopes' weighted sum, not divided by 6.0
WeightedSum(k1, k2, k3, k4) ==
    VecAdd(VecAdd(VecAdd(k1, VecScale(k2, FromInt(2))), VecScale(k3, FromInt(2))), k4)

\* the first slope alone for the weighted average of the four
FirstSlope(k1, k2, k3, k4) == k1

\* (k1 + k2 * 2.0 + k3 * 2.0 + k4) / 6.0
WeightedAverage(k1, k2, k3, k4) ==
    VecDiv(VecAdd(VecAdd(VecAdd(k1, VecScale(k2, FromInt(2))), VecScale(k3, FromInt(2))), k4),
           FromInt(6))

\* the new position with the time advanced by two steps
NewPosTwoSteps(pos0, delta_r, h) ==
    Vector4D(Add(pos0.x, delta_r.x), Add(pos0.y, delta_r.y), Add(pos0.z, delta_r.z),
             Add(Add(pos0.t, h), h))

\* Vector4D new_pos(pos0.x + delta_r.x, pos0.y + delta_r.y, pos0.z + delta_r.z,
\*                  pos0.t + timeStep)
NewPos(pos0, delta_r, h) ==
    Vector4D(Add(pos0.x, delta_r.x), Add(pos0.y, delta_r.y), Add(pos0.z, delta_r.z),
             Add(pos0.t, h))

\* weighted average of slopes; update position with time; proj.move
Update ==
    /\ pc = "update"
    /\ loc' = [loc EXCEPT
                 !.new_vel = VecAdd(loc.vel0,
                                    WeightedAverage(loc.k1_v, loc.k2_v, loc.k3_v, loc.k4_v)),
                 !.new_pos = NewPos(loc.pos0,
                                    WeightedAverage(loc.k1_x, loc.k2_x, loc.k3_x, loc.k4_x),
                                    timeStep)]
    /\ proj' = move(proj, loc'.new_pos, loc'.new_vel)
    /\ pc' = "ground"
    /\ UNCHANGED <<wind, timeStep, maxTime, trajectory, proj0, iters, hit>>

\* the ground collision check with the ground one metre lower
GroundCheckBelowGround ==
    /\ pc = "ground"
    /\ IF Less(loc.new_pos.z, FromInt(-1))
       THEN /\ proj' = move(proj, [loc.new_pos EXCEPT !.z = Zero], Vector3D(Zero, Zero, Zero))
            /\ loc' = NoLocals
            /\ hit' = TRUE
            /\ pc' = "return"
       ELSE /\ pc' = "add"
            /\ UNCHANGED <<proj, loc, hit>>
    /\ UNCHANGED <<wind, timeStep, maxTime, trajectory, proj0, iters>>

\* ground collision check
GroundCheck ==
    /\ pc = "ground"
    /\ IF Less(loc.new_pos.z, Zero)
       THEN /\ proj' = move(proj, [loc.new_pos EXCEPT !.z = Zero], Vector3D(Zero, Zero, Zero))
            /\ loc' = NoLocals
            /\ hit' = TRUE
            /\ pc' = "return"
       ELSE /\ pc' = "add"
            /\ UNCHANGED <<proj, loc, hit>>
    /\ UNCHANGED <<wind, timeStep, maxTime, trajectory, proj0, iters>>

\* trajectory.addPoint(proj.getPosition()); the end of the loop body
AddPoint ==
    /\ pc = "add"
    /\ trajectory' = addPoint(trajectory, proj.position)
    /\ loc' = NoLocals
    /\ pc' = "loop"
    /\ UNCHANGED <<proj, wind, timeStep, maxTime, proj0, iters, hit>>

\* return trajectory;
Return ==
    /\ pc = "return"
    /\ pc' = "done"
    /\ UNCHANGED <<proj, wind, timeStep, maxTime, trajectory, loc, proj0, iters, hit>>

Next ==
    \/ Start
    \/ LoopTest
    \/ StageK1
    \/ StageK2
    \/ StageK3
    \/ StageK4
    \/ Update
    \/ GroundCheck
    \/ AddPoint
    \/ Return

Spec == Init /\ [][Next]_vars

\* the statement control passes to from the current one
NextStatement ==
    CASE pc = "entry" -> "loop"
      [] pc = "loop" -> IF LoopCondition(proj, maxTime) THEN "k1" ELSE "return"
      [] pc = "k1" -> "k2"
      [] pc = "k2" -> "k3"
      [] pc = "k3" -> "k4"
      [] pc = "k4" -> "update"
      [] pc = "update" -> "ground"
      [] pc = "ground" -> IF Less(loc.new_pos.z, Zero) THEN "return" ELSE "add"
      [] pc = "add" -> "loop"
      [] pc = "return" -> "done"
      [] pc = "done" -> "done"

\* control passes on to the next statement
Advance ==
    /\ pc = "loop" => (Less(Zero, timeStep) \/ iters < MaxIter)
    /\ pc' = NextStatement

\* the sequential program runs on: control always passes on to its next
\* statement
FairSpec == Init /\ [][Next]_vars /\ WF_pc(Advance)

\* every step of the program passes control to NextStatement
StepsAdvance == [][pc' = NextStatement]_vars

(***************************************************************************)
(* Run::Run, validation type 1: rk4Simulation(valadation, timeStep, wind,  *)
(* maxTime) on a valadationWithoutAirResistance projectile                 *)
(***************************************************************************)
valadationWithoutAirResistance ==
    Projectile(Vector4D(Zero, Zero, FromInt(10), Zero),
               Vector3D(FromInt(15), FromInt(5), FromInt(15)),
               Vector3D(Zero, Zero, Zero), One, Dec(0, 1, 10), Zero, Zero, Zero)

InitValidation ==
    InitRun(valadationWithoutAirResistance, Vector3D(Zero, Zero, Zero),
            Dec(0, 1, 1000), FromInt(10))

(***************************************************************************)
(* The loop of rk4Simulation, iteration by iteration                       *)
(***************************************************************************)
\* F of the value of v, v evaluated first as a statement's right-hand side is
With(v, F(_)) == CHOOSE r \in {F(x) : x \in {v}} : TRUE

\* the slopes of one RK4 stage of projectile p at velocity vel
Slopes(p, vel) ==
    [v |-> VecScale(calculateAcceleration(setVelocity(p, vel), wind), timeStep),
     x |-> VecScale(vel, timeStep)]

\* the move with the velocity slopes' weighted sum not divided by 6.0
MovedBySum(p, k1, k2, k3, k4) ==
    move(p, NewPos(p.position, WeightedAverage(k1.x, k2.x, k3.x, k4.x), timeStep),
         VecAdd(p.velocity, WeightedSum(k1.v, k2.v, k3.v, k4.v)))

\* proj.move(new_pos, new_vel) from the four stages' slopes
Moved(p, k1, k2, k3, k4) ==
    move(p, NewPos(p.position, WeightedAverage(k1.x, k2.x, k3.x, k4.x), timeStep),
         VecAdd(p.velocity, WeightedAverage(k1.v, k2.v, k3.v, k4.v)))

AfterK3(p, k1, k2, k3) ==
    With(Slopes(p, VecAdd(p.velocity, k3.v)), LAMBDA k4 : Moved(p, k1, k2, k3, k4))
AfterK2(p, k1, k2) ==
    With(Slopes(p, VecAdd(p.velocity, VecScale(k2.v, Half))),
         LAMBDA k3 : AfterK3(p, k1, k2, k3))
AfterK1(p, k1) ==
    With(Slopes(p, VecAdd(p.velocity, VecScale(k1.v, Half))),
         LAMBDA k2 : AfterK2(p, k1, k2))

\* the projectile after the RK4 step of one loop iteration, before the
\* ground collision check
RK4Step(p) == With(Slopes(p, p.velocity), LAMBDA k1 : AfterK1(p, k1))

\* the ground collision check and the end of the loop body, p the
\* projectile after the step
Collided(run, p) ==
    IF Less(p.position.z, Zero)
    THEN [proj |-> move(p, [p.position EXCEPT !.z = Zero], Vector3D(Zero, Zero, Zero)),
          trajectory |-> run.trajectory, iters |-> run.iters + 1,
          hit |-> TRUE, running |-> FALSE]
    ELSE [proj |-> p, trajectory |-> addPoint(run.trajectory, p.position),
          iters |-> run.iters + 1, hit |-> run.hit, running |-> TRUE]

\* the loop test and, if it holds, one iteration of the loop
Iteration(run) ==
    IF ~LoopCondition(run.proj, maxTime) THEN [run EXCEPT !.running = FALSE]
    ELSE Collided(run, RK4Step(run.proj))

\* the loop, until it ends or for n iterations
RECURSIVE Iterations(_, _)
Iterations(run, n) ==
    IF n = 0 \/ ~run.running THEN run
    ELSE IF n = 1 THEN Iteration(run)
    ELSE With(Iterations(run, n \div 2), LAMBDA half : Iterations(half, n - (n \div 2)))

\* the validation run is followed ChunkSize iterations at a time
ChunkSize == 24

\* the next ChunkSize iterations of the loop, or those left of it, in one step
LoopChunk ==
    /\ pc = "loop"
    /\ \E run \in {Iterations([proj |-> proj, trajectory |-> trajectory, iters |-> iters,
                                hit |-> hit, running |-> TRUE], ChunkSize)} :
        /\ proj' = run.proj
        /\ trajectory' = run.trajectory
        /\ iters' = run.iters
        /\ hit' = run.hit
        /\ pc' = IF run.running THEN "loop" ELSE "return"
    /\ UNCHANGED <<wind, timeStep, maxTime, loc, proj0>>

\* the validation run: the first sample, the loop and the return
NextValidation == Start \/ LoopChunk \/ Return

SpecValidation == InitValidation /\ [][NextValidation]_vars

(***************************************************************************)
(* rk4Simulation on launches from flat ground without drag, spin or wind   *)
(***************************************************************************)
LaunchVelocities ==
    {Vector3D(FromInt(2), Zero, FromInt(5)), Vector3D(FromInt(3), FromInt(4), FromInt(3))}
LaunchTimeSteps == {Dec(0, 1, 10), Dec(0, 1, 20)}

InitLaunch ==
    \E vel \in LaunchVelocities, h \in LaunchTimeSteps :
        InitRun(Projectile(Vector4D(Zero, Zero, Zero, Zero), vel, perfectProjectile[1],
                           perfectProjectile[2], perfectProjectile[3], perfectProjectile[4],
                           perfectProjectile[5], perfectProjectile[6]),
                ZeroVector, h, FromInt(3))

SpecLaunch == InitLaunch /\ [][Next]_vars

(***************************************************************************)
(* Run::Run, validation types 1 and 2: the launch of the validation run    *)
(* without and with air resistance                                         *)
(***************************************************************************)
\* pingPongBall(initialPos, initialVel, initialSpin)
pingPongBall(initialPos, initialVel, initialSpin) ==
    Projectile(initialPos, initialVel, initialSpin, Dec(0, 27, 10000), Dec(0, 2, 100),
               Dec(1, 27, 100), Dec(0, 4, 100), Dec(0, 1, 2))

valadationWithAirResistance ==
    pingPongBall(Vector4D(Zero, Zero, FromInt(10), Zero),
                 Vector3D(FromInt(15), FromInt(5), FromInt(15)),
                 Vector3D(Zero, Zero, Zero))

InitComparison ==
    \E valadation \in {valadationWithoutAirResistance, valadationWithAirResistance} :
        InitRun(valadation, Vector3D(Zero, Zero, Zero), Dec(0, 1, 1000), FromInt(10))

SpecComparison == InitComparison /\ [][NextValidation]_vars

(***************************************************************************)
(* Calls of Projectile::calculateAcceleration(wind)                        *)
(***************************************************************************)
\* the divisor of every division Vector3D::normalize executes on a
normalizeDivisors(a) == IF Less(Zero, magnitude(a)) THEN {magnitude(a)} ELSE {}

\* the divisor of every division calculateAcceleration executes on p with wind
\* w: those of relativeVelocity.normalize() when speed > 0, and the mass
accelerationDivisors(p, w) ==
    (IF Less(Zero, magnitude(VecSub(p.velocity, w)))
     THEN normalizeDivisors(VecSub(p.velocity, w)) ELSE {}) \cup {p.mass}

\* a receiver whose velocity the call replaces by the relative velocity
receiverWithRelativeVelocity(p, w) == setVelocity(p, VecSub(p.velocity, w))

\* the receiver after calculateAcceleration(w): the body assigns no member
receiverAfterAcceleration(p, w) == p

\* further arguments of the parameterized constructor, as in Parameters
unevenMass ==
    <<Vector3D(Zero, One, FromInt(-1)), Dec(1, 7000001, 10000000), Dec(0, 1, 4),
      Dec(1, 27, 100), Dec(0, 4, 100), Dec(0, 1, 2)>>
spinning ==
    <<Vector3D(FromInt(2), FromInt(-3), One), Dec(0, 1, 2), Dec(0, 1, 10), Dec(1, 27, 100),
      Dec(0, 1, 4), Zero>>
ForceParameters == Parameters \cup {unevenMass, spinning}
ForceVelocities == Velocities \cup {ZeroVector, Vector3D(One, FromInt(-1), Zero)}
ForceWinds == Winds \cup {Vector3D(FromInt(3), FromInt(4), Zero), Vector3D(Zero, Zero, FromInt(2))}

\* the locals of the calling code: the SOverM it gave the constructor and the
\* accelerations its calls returned
NoCalls(SOverM) == [SOverM |-> SOverM, first |-> ZeroVector, second |-> ZeroVector]

InitForce ==
    \E par \in ForceParameters, vel \in ForceVelocities, w \in ForceWinds :
        /\ proj = Projectile(Vector4D(Zero, Zero, FromInt(10), Zero), vel,
                             par[1], par[2], par[3], par[4], par[5], par[6])
        /\ proj0 = proj
        /\ wind = w
        /\ loc = NoCalls(par[5])
        /\ timeStep = Zero
        /\ maxTime = Zero
        /\ trajectory = <<>>
        /\ pc = "entry"
        /\ iters = 0
        /\ hit = FALSE

\* Vector3D a = proj.calculateAcceleration(wind);
FirstCall ==
    /\ pc = "entry"
    /\ loc' = [loc EXCEPT !.first = calculateAcceleration(proj, wind)]
    /\ proj' = receiverAfterAcceleration(proj, wind)
    /\ pc' = "once"
    /\ iters' = iters + 1
    /\ UNCHANGED <<wind, timeStep, maxTime, trajectory, proj0, hit>>

\* Vector3D b = proj.calculateAcceleration(wind);
SecondCall ==
    /\ pc = "once"
    /\ loc' = [loc EXCEPT !.second = calculateAcceleration(proj, wind)]
    /\ proj' = receiverAfterAcceleration(proj, wind)
    /\ pc' = "twice"
    /\ iters' = iters + 1
    /\ UNCHANGED <<wind, timeStep, maxTime, trajectory, proj0, hit>>

NextForce == FirstCall \/ SecondCall

SpecForce == InitForce /\ [][NextForce]_vars

(***************************************************************************)
(* Calls of the Vector3D operations                                        *)
(***************************************************************************)
VectorOperands ==
    {ZeroVector, Vector3D(FromInt(3), FromInt(4), Zero),
     Vector3D(One, FromInt(-2), FromInt(2)), Vector3D(Ulp, Zero, Zero),
     Vector3D(Zero, Neg(Dec(0, 1, 2)), Zero)}
Scalars == {FromInt(2), Dec(0, 1, 2), FromInt(-1), Dec(0, 1, 4)}

\* the locals of the calling code: the operands a and b, the scalar and the
\* result of the operation
InitVector ==
    /\ \E a \in VectorOperands, b \in VectorOperands, scalar \in Scalars :
        loc = [a |-> a, b |-> b, scalar |-> scalar, result |-> ZeroVector]
    /\ proj = valadationWithoutAirResistance
    /\ proj0 = proj
    /\ wind = ZeroVector
    /\ timeStep = Zero
    /\ maxTime = Zero
    /\ trajectory = <<>>
    /\ pc = "entry"
    /\ iters = 0
    /\ hit = FALSE

\* Vector3D result = a + b;
Plus ==
    /\ pc = "entry"
    /\ loc' = [loc EXCEPT !.result = VecAdd(loc.a, loc.b)]
    /\ pc' = "a + b"
    /\ UNCHANGED <<proj, wind, timeStep, maxTime, trajectory, proj0, iters, hit>>

\* Vector3D result = a - b;
Minus ==
    /\ pc = "entry"
    /\ loc' = [loc EXCEPT !.result = VecSub(loc.a, loc.b)]
    /\ pc' = "a - b"
    /\ UNCHANGED <<proj, wind, timeStep, maxTime, trajectory, proj0, iters, hit>>

\* Vector3D result = a * scalar;
Times ==
    /\ pc = "entry"
    /\ loc' = [loc EXCEPT !.result = VecScale(loc.a, loc.scalar)]
    /\ pc' = "a * scalar"
    /\ UNCHANGED <<proj, wind, timeStep, maxTime, trajectory, proj0, iters, hit>>

\* Vector3D result = a / scalar;
Over ==
    /\ pc = "entry"
    /\ loc' = [loc EXCEPT !.result = VecDiv(loc.a, loc.scalar)]
    /\ pc' = "a / scalar"
    /\ UNCHANGED <<proj, wind, timeStep, maxTime, trajectory, proj0, iters, hit>>

\* Vector3D result = a.normalize();
Normalize ==
    /\ pc = "entry"
    /\ loc' = [loc EXCEPT !.result = normalize(loc.a)]
    /\ pc' = "a.normalize()"
    /\ UNCHANGED <<proj, wind, timeStep, maxTime, trajectory, proj0, iters, hit>>

\* Vector3D result = a.normalized();
Normalized ==
    /\ pc = "entry"
    /\ loc' = [loc EXCEPT !.result = normalized(loc.a)]
    /\ pc' = "a.normalized()"
    /\ UNCHANGED <<proj, wind, timeStep, maxTime, trajectory, proj0, iters, hit>>

NextVector == Plus \/ Minus \/ Times \/ Over \/ Normalize \/ Normalized

SpecVector == InitVector /\ [][NextVector]_vars

(***************************************************************************)
(* Calls of the Trajectory operations                                      *)
(***************************************************************************)
\* a trajectory is followed up to MaxPoints points
MaxPoints == 3

SamplePoints ==
    {Vector4D(Zero, Zero, FromInt(10), Zero),
     Vector4D(FromInt(3), FromInt(4), Dec(5, 95, 1000), One),
     Vector4D(Zero, Zero, Zero, Zero)}

\* the locals of the calling code: the points it added, in call order, and
\* what getPoints, getFinalPoint and print last gave it
InitTrajectory ==
    /\ trajectory = <<>>
    /\ loc = [added |-> <<>>, points |-> <<>>, final |-> Vector4D(Zero, Zero, Zero, Zero),
              printed |-> <<>>]
    /\ proj = valadationWithoutAirResistance
    /\ proj0 = proj
    /\ wind = ZeroVector
    /\ timeStep = Zero
    /\ maxTime = Zero
    /\ pc = "entry"
    /\ iters = 0
    /\ hit = FALSE

\* trajectory.addPoint(point);
TrajectoryAddPoint ==
    /\ Len(trajectory) < MaxPoints
    /\ \E point \in SamplePoints :
        /\ trajectory' = addPoint(trajectory, point)
        /\ loc' = [loc EXCEPT !.added = Append(@, point)]
    /\ pc' = "addPoint"
    /\ UNCHANGED <<proj, wind, timeStep, maxTime, proj0, iters, hit>>

\* points = trajectory.getPoints();
TrajectoryGetPoints ==
    /\ loc' = [loc EXCEPT !.points = getPoints(trajectory)]
    /\ pc' = "getPoints"
    /\ UNCHANGED <<proj, wind, timeStep, maxTime, trajectory, proj0, iters, hit>>

\* final = trajectory.getFinalPoint();
TrajectoryGetFinalPoint ==
    /\ loc' = [loc EXCEPT !.final = getFinalPoint(trajectory)]
    /\ pc' = "getFinalPoint"
    /\ UNCHANGED <<proj, wind, timeStep, maxTime, trajectory, proj0, iters, hit>>

\* trajectory.print(): every point of points, in order
TrajectoryPrint ==
    /\ loc' = [loc EXCEPT !.printed = [i \in 1..Len(trajectory) |-> trajectory[i]]]
    /\ pc' = "print"
    /\ UNCHANGED <<proj, wind, timeStep, maxTime, trajectory, proj0, iters, hit>>

NextTrajectory ==
    \/ TrajectoryAddPoint
    \/ TrajectoryGetPoints
    \/ TrajectoryGetFinalPoint
    \/ TrajectoryPrint

SpecTrajectory == InitTrajectory /\ [][NextTrajectory]_vars

(***************************************************************************)
(* Two rk4Simulation calls, each on its own Projectile, interleaved        *)
(* statement by statement: proj, trajectory, loc, pc, iters and hit hold   *)
(* the pair of the two calls' values, proj0 the two projectiles at entry;  *)
(* the calls are given the same timeStep, wind and maxTime                 *)
(***************************************************************************)
\* the state of a call after its next statement
Statement(run) ==
    CASE run.pc = "entry" ->
           [run EXCEPT !.trajectory = addPoint(@, run.proj.position), !.pc = "loop"]
      [] run.pc = "loop" ->
           IF LoopCondition(run.proj, maxTime)
           THEN [run EXCEPT !.pc = "k1", !.iters = @ + 1]
           ELSE [run EXCEPT !.pc = "return"]
      [] run.pc = "k1" ->
           [run EXCEPT !.loc.pos0 = run.proj.position,
                       !.loc.vel0 = run.proj.velocity,
                       !.loc.k1_v = Slopes(run.proj, run.proj.velocity).v,
                       !.loc.k1_x = Slopes(run.proj, run.proj.velocity).x,
                       !.pc = "k2"]
      [] run.pc = "k2" ->
           With(VecAdd(run.loc.vel0, VecScale(run.loc.k1_v, Half)),
                LAMBDA vel_mid1 :
                  [run EXCEPT !.proj = setVelocity(@, vel_mid1),
                              !.loc.k2_v = Slopes(run.proj, vel_mid1).v,
                              !.loc.k2_x = Slopes(run.proj, vel_mid1).x,
                              !.pc = "k3"])
      [] run.pc = "k3" ->
           With(VecAdd(run.loc.vel0, VecScale(run.loc.k2_v, Half)),
                LAMBDA vel_mid2 :
                  [run EXCEPT !.proj = setVelocity(@, vel_mid2),
                              !.loc.k3_v = Slopes(run.proj, vel_mid2).v,
                              !.loc.k3_x = Slopes(run.proj, vel_mid2).x,
                              !.pc = "k4"])
      [] run.pc = "k4" ->
           With(VecAdd(run.loc.vel0, run.loc.k3_v),
                LAMBDA vel_end :
                  [run EXCEPT !.proj = setVelocity(@, vel_end),
                              !.loc.k4_v = Slopes(run.proj, vel_end).v,
                              !.loc.k4_x = Slopes(run.proj, vel_end).x,
                              !.pc = "update"])
      [] run.pc = "update" ->
           With([new_vel |-> VecAdd(run.loc.vel0,
                                    WeightedAverage(run.loc.k1_v, run.loc.k2_v,
                                                    run.loc.k3_v, run.loc.k4_v)),
                 new_pos |-> NewPos(run.loc.pos0,
                                    WeightedAverage(run.loc.k1_x, run.loc.k2_x,
                                                    run.loc.k3_x, run.loc.k4_x),
                                    timeStep)],
                LAMBDA new :
                  [run EXCEPT !.loc.new_vel = new.new_vel,
                              !.loc.new_pos = new.new_pos,
                              !.proj = move(@, new.new_pos, new.new_vel),
                              !.pc = "ground"])
      [] run.pc = "ground" ->
           IF Less(run.loc.new_pos.z, Zero)
           THEN [run EXCEPT !.proj = move(@, [run.loc.new_pos EXCEPT !.z = Zero],
                                          Vector3D(Zero, Zero, Zero)),
                            !.loc = NoLocals, !.hit = TRUE, !.pc = "return"]
           ELSE [run EXCEPT !.pc = "add"]
      [] run.pc = "add" ->
           [run EXCEPT !.trajectory = addPoint(@, run.proj.position),
                       !.loc = NoLocals, !.pc = "loop"]
      [] run.pc = "return" -> [run EXCEPT !.pc = "done"]
      [] run.pc = "done" -> run

\* the call as it returns, run to its end on its own
RECURSIVE Completed(_)
Completed(run) ==
    IF run.pc = "done" THEN run
    ELSE With(Statement(run), LAMBDA next : Completed(next))

\* the call on projectile p at its entry
Entered(p) ==
    [proj |-> p, trajectory |-> <<>>, loc |-> NoLocals, pc |-> "entry",
     iters |-> 0, hit |-> FALSE]

\* the two calls
Calls == {1, 2}
CallOf(i) ==
    [proj |-> proj[i], trajectory |-> trajectory[i], loc |-> loc[i], pc |-> pc[i],
     iters |-> iters[i], hit |-> hit[i]]

\* a statement of call i with one Trajectory shared by the calls
InterleaveSharedTrajectory(runs, i) ==
    <<[(IF i = 1 THEN Statement(runs[1]) ELSE runs[1])
          EXCEPT !.trajectory = Statement(runs[i]).trajectory],
      [(IF i = 2 THEN Statement(runs[2]) ELSE runs[2])
          EXCEPT !.trajectory = Statement(runs[i]).trajectory]>>

\* a statement of call i: it acts on the call's own Projectile, Trajectory
\* and locals
Interleave(runs, i) ==
    <<IF i = 1 THEN Statement(runs[1]) ELSE runs[1],
      IF i = 2 THEN Statement(runs[2]) ELSE runs[2]>>

ConcurrentProjectiles ==
    {Projectile(Vector4D(Zero, Zero, Zero, Zero), Vector3D(FromInt(2), Zero, FromInt(5)),
                perfectProjectile[1], perfectProjectile[2], perfectProjectile[3],
                perfectProjectile[4], perfectProjectile[5], perfectProjectile[6]),
     Projectile(Vector4D(Zero, Zero, FromInt(10), Zero),
                Vector3D(FromInt(3), FromInt(4), FromInt(3)),
                dragAndMagnus[1], dragAndMagnus[2], dragAndMagnus[3],
                dragAndMagnus[4], dragAndMagnus[5], dragAndMagnus[6]),
     Projectile(Vector4D(One, FromInt(2), Zero, FromInt(2)),
                Vector3D(One, Zero, FromInt(-2)),
                dragOnly[1], dragOnly[2], dragOnly[3], dragOnly[4], dragOnly[5], dragOnly[6])}

InitConcurrent ==
    \E p1 \in ConcurrentProjectiles, p2 \in ConcurrentProjectiles :
        /\ proj = <<p1, p2>>
        /\ proj0 = <<p1, p2>>
        /\ wind = Vector3D(One, FromInt(-1), Zero)
        /\ timeStep = Dec(0, 1, 2)
        /\ maxTime = Dec(1, 1, 2)
        /\ trajectory = <<<<>>, <<>>>>
        /\ loc = <<NoLocals, NoLocals>>
        /\ pc = <<"entry", "entry">>
        /\ iters = <<0, 0>>
        /\ hit = <<FALSE, FALSE>>

\* the scheduler lets one of the calls execute its next statement
Interleaved ==
    \E i \in Calls :
        /\ pc[i] # "done"
        /\ \E runs \in {Interleave(<<CallOf(1), CallOf(2)>>, i)} :
            /\ proj' = <<runs[1].proj, runs[2].proj>>
            /\ trajectory' = <<runs[1].trajectory, runs[2].trajectory>>
            /\ loc' = <<runs[1].loc, runs[2].loc>>
            /\ pc' = <<runs[1].pc, runs[2].pc>>
            /\ iters' = <<runs[1].iters, runs[2].iters>>
            /\ hit' = <<runs[1].hit, runs[2].hit>>
        /\ UNCHANGED <<wind, timeStep, maxTime, proj0>>

NextConcurrent == Interleaved

SpecConcurrent == InitConcurrent /\ [][NextConcurrent]_vars

(***************************************************************************)
(* Trajectory::CSVPrint(filename, info) on the trajectory a run returned   *)
(***************************************************************************)
\* the decimal digits of n < 100000, most significant first
Digits5(n) ==
    <<n \div 10000, (n \div 1000) % 10, (n \div 100) % 10, (n \div 10) % 10, n % 10>>

\* the decimal expansion of a non-negative double: five digits of its whole
\* part and ten of its fraction, then zeros
DecimalDigits(a) ==
    Digits5(a[1])
    \o Digits5((a[2] \div B) * 5 + (((a[2] % B) * 25) \div 100000))
    \o Digits5(((a[2] % B) * 25) % 100000)
    \o <<0, 0, 0, 0, 0, 0>>

\* the six digits of ds from position lead on, as a number
SixDigits(ds, lead) ==
    ds[lead] * 100000 + ds[lead + 1] * 10000 + ds[lead + 2] * 1000
    + ds[lead + 3] * 100 + ds[lead + 4] * 10 + ds[lead + 5]

\* the digits after the sixth are more than half a unit of the sixth, or half
\* a unit of it and the sixth is odd
RoundsUp(ds, lead) ==
    \/ ds[lead + 6] > 5
    \/ /\ ds[lead + 6] = 5
       /\ \/ \E i \in (lead + 7)..Len(ds) : ds[i] # 0
          \/ ds[lead + 5] % 2 = 1

\* operator<<(std::ostream&, double) at the default precision: the value to
\* six significant digits, digits * 10^(exponent - 5)
Shown(a) ==
    IF a = Zero THEN [negative |-> FALSE, digits |-> 0, exponent |-> 0]
    ELSE LET ds == DecimalDigits(Abs(a))
             lead == CHOOSE i \in 1..15 : ds[i] # 0 /\ \A j \in 1..(i - 1) : ds[j] = 0
             kept == SixDigits(ds, lead) + (IF RoundsUp(ds, lead) THEN 1 ELSE 0)
         IN  IF kept = 1000000
             THEN [negative |-> IsNeg(a), digits |-> 100000, exponent |-> 6 - lead]
             ELSE [negative |-> IsNeg(a), digits |-> kept, exponent |-> 5 - lead]

\* out << x << "," << y << "," << z << "," << t
Vector4DCSVPrint(point) == <<Shown(point.x), Shown(point.y), Shown(point.z), Shown(point.t)>>

\* file << point.t << "," << point.x << "," << point.y << "," << point.z
CSVRow(point) == <<Shown(point.t), Shown(point.x), Shown(point.y), Shown(point.z)>>

\* the lines of the file: info, which ends its last line, and std::endl; the
\* header; a row for every point
CSVLines(points, info) ==
    info \o <<"">> \o <<<<"Time", "X", "Y", "Z">>>>
    \o [i \in 1..Len(points) |-> CSVRow(points[i])]

\* info_stream.str() of Run::Run, line by line
InfoBlocks ==
    {<<"#Projectile Motion Simulation Data", "#Custom Simulation">>,
     <<"#Projectile Motion Simulation Data">>}

\* trajectory.CSVPrint(filename, info_stream.str()): the file is written
\* unless it could not be opened
TrajectoryCSVPrint ==
    /\ pc = "done"
    /\ \E info \in InfoBlocks, is_open \in BOOLEAN :
        loc' = [info |-> info, is_open |-> is_open,
                file |-> IF is_open THEN CSVLines(trajectory, info) ELSE <<>>]
    /\ pc' = "written"
    /\ UNCHANGED <<proj, wind, timeStep, maxTime, trajectory, proj0, iters, hit>>

NextOutput == Next \/ TrajectoryCSVPrint

SpecOutput == Init /\ [][NextOutput]_vars

(***************************************************************************)
(* factorial(n) of the example tests, call by call: loc holds the argument *)
(* of the outermost call, that of the innermost call, the arguments of the *)
(* calls waiting for their callee, innermost last, and the value returned  *)
(* last.  The values are integers below 2^53, which a double holds exactly *)
(***************************************************************************)
MaxArgument == 10
Arguments == (-3)..MaxArgument

\* the product with the predecessor of n
factorialOfPredecessor(n, returned) == (n - 1) * returned

\* return n * factorial(n - 1), the callee having returned
factorialOf(n, returned) == n * returned

InitFactorial ==
    /\ \E n \in Arguments : loc = [n |-> n, argument |-> n, waiting |-> <<>>, value |-> 0]
    /\ pc = "call"
    /\ proj = valadationWithoutAirResistance
    /\ proj0 = proj
    /\ wind = ZeroVector
    /\ timeStep = Zero
    /\ maxTime = Zero
    /\ trajectory = <<>>
    /\ iters = 0
    /\ hit = FALSE

\* if (n <= 1) return 1; otherwise the call of factorial(n - 1)
FactorialCall ==
    /\ pc = "call"
    /\ IF loc.argument <= 1
       THEN /\ loc' = [loc EXCEPT !.value = 1]
            /\ pc' = "return"
       ELSE /\ loc' = [loc EXCEPT !.waiting = Append(@, loc.argument),
                                  !.argument = loc.argument - 1]
            /\ pc' = "call"
    /\ UNCHANGED <<proj, wind, timeStep, maxTime, trajectory, proj0, iters, hit>>

\* a call returns: to the call waiting for it, which returns n * the value,
\* or to the caller of factorial
FactorialReturn ==
    /\ pc = "return"
    /\ IF loc.waiting = <<>>
       THEN /\ pc' = "returned"
            /\ loc' = loc
       ELSE /\ loc' = [loc EXCEPT !.value = factorialOf(Last(loc.waiting), loc.value),
                                  !.waiting = Front(loc.waiting)]
            /\ pc' = "return"
    /\ UNCHANGED <<proj, wind, timeStep, maxTime, trajectory, proj0, iters, hit>>

NextFactorial == FactorialCall \/ FactorialReturn

SpecFactorial == InitFactorial /\ [][NextFactorial]_vars

\* a call that has started runs on
FairSpecFactorial == SpecFactorial /\ WF_vars(NextFactorial)

(***************************************************************************)
(* The output filename of Run::Run: loc holds the indices N of the files   *)
(* Output/trajectoryN.csv that exist, whether files can be created in      *)
(* Output/, the static fileIndex of the process, the index of filename and *)
(* the indices of the files the process wrote; iters counts the Run        *)
(* objects the process has constructed                                     *)
(***************************************************************************)
MaxRuns == 3
MaxFiles == 4

\* the index of the filename with fileIndex taken after fileIndex++
indexAfterIncrement(fileIndex) == fileIndex + 1

\* filename = dir + "trajectory" + to_string(fileIndex) + ".csv"
indexOfFilename(fileIndex) == fileIndex

InitFilename ==
    /\ \E files \in SUBSET (1..MaxFiles), writable \in BOOLEAN :
        loc = [files |-> files, writable |-> writable, fileIndex |-> 2, index |-> 0,
               written |-> <<>>]
    /\ pc = "Run"
    /\ iters = 0
    /\ proj = valadationWithoutAirResistance
    /\ proj0 = proj
    /\ wind = ZeroVector
    /\ timeStep = Zero
    /\ maxTime = Zero
    /\ trajectory = <<>>
    /\ hit = FALSE

\* string filename = dir + "trajectory" + to_string(1) + ".csv"
FirstFilename ==
    /\ pc = "Run"
    /\ iters < MaxRuns
    /\ iters' = iters + 1
    /\ loc' = [loc EXCEPT !.index = 1]
    /\ pc' = "while"
    /\ UNCHANGED <<proj, wind, timeStep, maxTime, trajectory, proj0, hit>>

\* while (ifstream(filename)) { filename = ... fileIndex ...; fileIndex++; }
WhileFileExists ==
    /\ pc = "while"
    /\ IF loc.index \in loc.files
       THEN /\ loc' = [loc EXCEPT !.index = indexOfFilename(loc.fileIndex),
                                  !.fileIndex = loc.fileIndex + 1]
            /\ pc' = "while"
       ELSE /\ loc' = loc
            /\ pc' = "CSVPrint"
    /\ UNCHANGED <<proj, wind, timeStep, maxTime, trajectory, proj0, iters, hit>>

\* trajectory.CSVPrint(filename, info_stream.str()): the file is created
\* unless it cannot be opened
FilenameCSVPrint ==
    /\ pc = "CSVPrint"
    /\ IF loc.writable
       THEN loc' = [loc EXCEPT !.files = @ \cup {loc.index},
                               !.written = Append(@, loc.index)]
       ELSE loc' = loc
    /\ pc' = "Run"
    /\ UNCHANGED <<proj, wind, timeStep, maxTime, trajectory, proj0, iters, hit>>

NextFilename == FirstFilename \/ WhileFileExists \/ FilenameCSVPrint

SpecFilename == InitFilename /\ [][NextFilename]_vars

(***************************************************************************)
(* rk4Simulation on projectiles without drag and Magnus force              *)
(***************************************************************************)
\* no spin, with air and a lift coupling factor, and no drag coefficient
spinlessInAir ==
    <<ZeroVector, FromInt(2), Dec(0, 1, 10), Dec(1, 2, 10), Dec(0, 1, 4), Zero>>

BallisticParameters ==
    {perfectProjectile, noDragByCoefficient, noDragByDensity, spinlessInAir}
BallisticTimeSteps == {One, Dec(0, 1, 2), Neg(Dec(0, 1, 2))}

InitBallistic ==
    \E par \in BallisticParameters, pos \in Positions, vel \in Velocities,
       w \in Winds, h \in BallisticTimeSteps, mt \in MaxTimes :
        InitRun(Projectile(pos, vel, par[1], par[2], par[3], par[4], par[5], par[6]),
                w, h, mt)

SpecBallistic == InitBallistic /\ [][Next]_vars

(***************************************************************************)
(* rk4Simulation(state, derivatives, stopCondition, timeStep) of Project 2 *)
(* at statement granularity: proj holds the caller's state vector (state[0]*)
(* is its first element), trajectory the local vector of states, loc the   *)
(* locals k1 .. k4 and tempState and the two callbacks, proj0 the state at *)
(* entry and iters the number of loop iterations entered                   *)
(***************************************************************************)
\* derivatives callbacks for a state <<time, angle, angular velocity>>: an
\* oscillator without and with damping
derivatives(callback, s, time) ==
    IF callback = "oscillator" THEN <<One, s[3], Neg(s[2])>>
    ELSE <<One, s[3], Sub(Neg(s[2]), Mul(Half, s[3]))>>

\* stopCondition callbacks: state[0] < limit, as in main, and state[1] > 0
stopCondition(callback, s) ==
    IF callback.kind = "time" THEN Less(s[1], callback.limit)
    ELSE Less(Zero, s[2])

\* tempState[i] = state[i] + factor * k[i] for every i
tempStateOf(s, factor, k) == [i \in 1..Len(s) |-> Add(s[i], Mul(factor, k[i]))]

\* state[i] += (timeStep / 6.0) * (k1[i] + 2.0 * k2[i] + 2.0 * k3[i] + k4[i])
updatedState(s, k1, k2, k3, k4, h) ==
    [i \in 1..Len(s) |->
        Add(s[i], Mul(Div(h, FromInt(6)),
                      Add(Add(Add(k1[i], Mul(FromInt(2), k2[i])),
                              Mul(FromInt(2), k3[i])), k4[i])))]

\* state_type k(state.size())
zeroState(s) == [i \in 1..Len(s) |-> Zero]

GenericStates ==
    {<<Zero, One, Zero>>, <<One, Dec(0, 1, 2), FromInt(-1)>>, <<Zero, FromInt(-1), One>>}
GenericDerivatives == {"oscillator", "damped oscillator"}
GenericStopConditions ==
    {[kind |-> "time", limit |-> One], [kind |-> "time", limit |-> Dec(1, 1, 2)],
     [kind |-> "angle", limit |-> Zero]}
GenericTimeSteps == {Dec(0, 1, 2), Dec(0, 1, 4)}

InitGeneric ==
    /\ \E s \in GenericStates, d \in GenericDerivatives, c \in GenericStopConditions :
        /\ proj = s
        /\ proj0 = s
        /\ loc = [k1 |-> <<>>, k2 |-> <<>>, k3 |-> <<>>, k4 |-> <<>>, tempState |-> <<>>,
                  derivatives |-> d, stopCondition |-> c]
    /\ timeStep \in GenericTimeSteps
    /\ pc = "entry"
    /\ trajectory = <<>>
    /\ iters = 0
    /\ wind = ZeroVector
    /\ maxTime = Zero
    /\ hit = FALSE

\* trajectory.push_back(state); the allocation of k1 .. k4 and tempState
GenericStart ==
    /\ pc = "entry"
    /\ trajectory' = Append(trajectory, proj)
    /\ loc' = [loc EXCEPT !.k1 = zeroState(proj), !.k2 = zeroState(proj),
                          !.k3 = zeroState(proj), !.k4 = zeroState(proj),
                          !.tempState = zeroState(proj)]
    /\ pc' = "while"
    /\ UNCHANGED <<proj, wind, timeStep, maxTime, proj0, iters, hit>>

\* a loop whose first iteration is entered without the test
GenericDoWhile ==
    /\ pc = "while"
    /\ IF iters = 0 \/ stopCondition(loc.stopCondition, proj)
       THEN pc' = "k1" /\ iters' = iters + 1
       ELSE pc' = "return" /\ iters' = iters
    /\ UNCHANGED <<proj, wind, timeStep, maxTime, trajectory, loc, proj0, hit>>

\* while (stopCondition(state))
GenericWhile ==
    /\ pc = "while"
    /\ IF stopCondition(loc.stopCondition, proj)
       THEN pc' = "k1" /\ iters' = iters + 1
       ELSE pc' = "return" /\ iters' = iters
    /\ UNCHANGED <<proj, wind, timeStep, maxTime, trajectory, loc, proj0, hit>>

\* derivatives(state, k1, 0.0)
GenericK1 ==
    /\ pc = "k1"
    /\ loc' = [loc EXCEPT !.k1 = derivatives(loc.derivatives, proj, Zero)]
    /\ pc' = "k2"
    /\ UNCHANGED <<proj, wind, timeStep, maxTime, trajectory, proj0, iters, hit>>

\* tempState = state + 0.5 * timeStep * k1; derivatives(tempState, k2, 0.5 * timeStep)
GenericK2 ==
    /\ pc = "k2"
    /\ \E temp \in {tempStateOf(proj, Mul(Half, timeStep), loc.k1)} :
        loc' = [loc EXCEPT !.tempState = temp,
                           !.k2 = derivatives(loc.derivatives, temp, Mul(Half, timeStep))]
    /\ pc' = "k3"
    /\ UNCHANGED <<proj, wind, timeStep, maxTime, trajectory, proj0, iters, hit>>

\* tempState = state + 0.5 * timeStep * k2; derivatives(tempState, k3, 0.5 * timeStep)
GenericK3 ==
    /\ pc = "k3"
    /\ \E temp \in {tempStateOf(proj, Mul(Half, timeStep), loc.k2)} :
        loc' = [loc EXCEPT !.tempState = temp,
                           !.k3 = derivatives(loc.derivatives, temp, Mul(Half, timeStep))]
    /\ pc' = "k4"
    /\ UNCHANGED <<proj, wind, timeStep, maxTime, trajectory, proj0, iters, hit>>

\* tempState = state + timeStep * k3; derivatives(tempState, k4, timeStep)
GenericK4 ==
    /\ pc = "k4"
    /\ \E temp \in {tempStateOf(proj, timeStep, loc.k3)} :
        loc' = [loc EXCEPT !.tempState = temp,
                           !.k4 = derivatives(loc.derivatives, temp, timeStep)]
    /\ pc' = "update"
    /\ UNCHANGED <<proj, wind, timeStep, maxTime, trajectory, proj0, iters, hit>>

\* the update of state; trajectory.push_back(state)
GenericUpdate ==
    /\ pc = "update"
    /\ proj' = updatedState(proj, loc.k1, loc.k2, loc.k3, loc.k4, timeStep)
    /\ trajectory' = Append(trajectory, proj')
    /\ pc' = "while"
    /\ UNCHANGED <<wind, timeStep, maxTime, loc, proj0, iters, hit>>

\* return trajectory
GenericReturn ==
    /\ pc = "return"
    /\ pc' = "done"
    /\ UNCHANGED <<proj, wind, timeStep, maxTime, trajectory, loc, proj0, iters, hit>>

NextGeneric ==
    \/ GenericStart
    \/ GenericWhile
    \/ GenericK1
    \/ GenericK2
    \/ GenericK3
    \/ GenericK4
    \/ GenericUpdate
    \/ GenericReturn

SpecGeneric == InitGeneric /\ [][NextGeneric]_vars

(***************************************************************************)
(* The parameterized constructor and the setters of Projectile: loc holds  *)
(* the SOverM the caller supplied last and the acceleration the caller got *)
(* from its last calculateAcceleration call                                *)
(***************************************************************************)
\* Projectile::setMass(m)
setMass(p, m) == [p EXCEPT !.mass = m]

\* Projectile::setS(SOverM)
setS(p, SOverM) == [p EXCEPT !.S = Mul(SOverM, p.mass)]

\* Projectile::setAll(pos, vel, spinVec, m, r, density, SOverM, dragCoeff)
setAll(p, pos, vel, spinVec, m, r, density, SOverM, dragCoeff) ==
    [position |-> pos, velocity |-> vel, spin |-> spinVec, mass |-> m, radius |-> r,
     airDensity |-> density, S |-> Mul(SOverM, m), dragCoefficient |-> dragCoeff]

SetterMasses == {One, FromInt(2), Dec(0, 1, 2)}
SetterSOverMs == {Zero, Dec(0, 1, 4)}
SetterSpins == {Vector3D(Zero, Zero, One)}

InitSetters ==
    /\ \E spinVec \in SetterSpins, m \in SetterMasses, SOverM \in SetterSOverMs :
        /\ proj = Projectile(Vector4D(Zero, Zero, FromInt(10), Zero),
                             Vector3D(FromInt(3), FromInt(4), Zero), spinVec, m,
                             Dec(0, 1, 10), Zero, SOverM, Zero)
        /\ loc = [SOverM |-> SOverM, acceleration |-> ZeroVector]
    /\ proj0 = proj
    /\ wind \in Winds
    /\ pc = "Projectile"
    /\ timeStep = Zero
    /\ maxTime = Zero
    /\ trajectory = <<>>
    /\ iters = 0
    /\ hit = FALSE

\* proj.setMass(m);
SetMass ==
    /\ \E m \in SetterMasses : proj' = setMass(proj, m)
    /\ pc' = "setMass"
    /\ UNCHANGED <<wind, timeStep, maxTime, trajectory, loc, proj0, iters, hit>>

\* proj.setS(SOverM);
SetS ==
    /\ \E SOverM \in SetterSOverMs :
        /\ proj' = setS(proj, SOverM)
        /\ loc' = [loc EXCEPT !.SOverM = SOverM]
    /\ pc' = "setS"
    /\ UNCHANGED <<wind, timeStep, maxTime, trajectory, proj0, iters, hit>>

\* proj.setAll(pos, vel, spinVec, m, r, density, SOverM, dragCoeff);
SetAll ==
    /\ \E spinVec \in SetterSpins, m \in SetterMasses, SOverM \in SetterSOverMs :
        /\ proj' = setAll(proj, proj.position, proj.velocity, spinVec, m, proj.radius,
                          Zero, SOverM, Zero)
        /\ loc' = [loc EXCEPT !.SOverM = SOverM]
    /\ pc' = "setAll"
    /\ UNCHANGED <<wind, timeStep, maxTime, trajectory, proj0, iters, hit>>

\* Vector3D a = proj.calculateAcceleration(wind);
SetterAcceleration ==
    /\ loc' = [loc EXCEPT !.acceleration = calculateAcceleration(proj, wind)]
    /\ pc' = "calculateAcceleration"
    /\ UNCHANGED <<proj, wind, timeStep, maxTime, trajectory, proj0, iters, hit>>

NextSetters == SetMass \/ SetS \/ SetAll \/ SetterAcceleration

SpecSetters == InitSetters /\ [][NextSetters]_vars

(***************************************************************************)
(* Properties of rk4Simulation                                             *)
(***************************************************************************)
Samples == 1..Len(trajectory)
Returned == pc = "done"
InitialTime == proj0.position.t

\* C1: when a step gives new_pos.z < 0 the clamped state is recorded as the
\* final sample: on return after a ground hit the last sample of the
\* trajectory has z = 0 and equals the projectile's final position
C1_ClampedStateRecorded ==
    (Returned /\ hit) =>
        /\ getFinalPoint(trajectory).z = Zero
        /\ getFinalPoint(trajectory) = proj.position

\* C2: every iteration, an iteration that hits the ground included, appends
\* its sample: after n executed iterations the trajectory holds n + 1 samples
C2_OneSamplePerIteration ==
    pc \in {"loop", "return", "done"} => Len(trajectory) = iters + 1

WithinCeiling(n) ==
    Less(Mul(FromInt(n - 1), timeStep), Sub(maxTime, InitialTime))

\* on return the projectile is grounded or its time has reached maxTime
GroundedOrTimedOut ==
    Returned => (hit \/ isGrounded(proj) \/ ~Less(getTime(proj), maxTime))

NoStepPastMaxTime ==
    /\ pc = "k1" => Less(getTime(proj), maxTime)
    /\ \A k \in Samples \ {Len(trajectory)} : Less(trajectory[k].t, maxTime)

LastSampleBeforeOneStepPast ==
    Less(getFinalPoint(trajectory).t, Add(maxTime, timeStep))

\* C5 as stated: no step starts at a time >= maxTime, every sample but the
\* last has time < maxTime, and for timeStep > 0 the last sample's time is
\* < maxTime + timeStep
C5_Original ==
    /\ NoStepPastMaxTime
    /\ (Less(Zero, timeStep) /\ trajectory # <<>>) => LastSampleBeforeOneStepPast

\* C5: no step starts at a time >= maxTime, every sample but the last has
\* time < maxTime, and for timeStep > 0 the last sample of a run that
\* executed a step has time < maxTime + timeStep
C5_StopsAtMaxTime ==
    /\ NoStepPastMaxTime
    /\ (Less(Zero, timeStep) /\ Len(trajectory) >= 2) => LastSampleBeforeOneStepPast

C5_Witness ==
    /\ Returned /\ Less(Zero, timeStep) /\ Len(trajectory) >= 3
    /\ ~Less(getFinalPoint(trajectory).t, maxTime)

InvalidConfiguration ==
    Leq(proj0.mass, Zero) \/ Leq(timeStep, Zero) \/ Leq(maxTime, Zero)

\* C6: with mass <= 0, timeStep <= 0 or maxTime <= 0 the configuration is
\* rejected: no step is executed and no trajectory is produced
C6_InvalidConfigurationRejected ==
    InvalidConfiguration => (iters = 0 /\ trajectory = <<>>)

\* no step is executed and the initial sample is the only one
EndsImmediately ==
    /\ pc \in {"entry", "loop", "return", "done"}
    /\ iters = 0 /\ ~hit
    /\ proj = proj0
    /\ pc # "entry" => trajectory = <<proj0.position>>
    /\ Returned => isGrounded(proj)

\* C7 as stated: with initial height z <= 0 the run ends immediately as
\* grounded with the initial sample as its only sample, for every velocity
C7_Original ==
    Leq(proj0.position.z, Zero) => EndsImmediately

\* C7: with initial height z <= 0 and initial vertical velocity <= 0 the
\* run ends immediately as grounded with the initial sample as its only
\* sample
C7_ImmediateGroundContact ==
    (Leq(proj0.position.z, Zero) /\ Leq(proj0.velocity.z, Zero)) => EndsImmediately

C7_Witness ==
    /\ Returned /\ Less(proj0.position.z, Zero) /\ Less(proj0.velocity.z, Zero)
    /\ Len(trajectory) = 1

\* C8: a run from position.z = 0 with zero vertical velocity returns
\* grounded with exactly the initial sample, executes no RK4 step and leaves
\* the projectile unchanged, for every horizontal velocity, wind, timeStep
\* and maxTime
C8_RestingOnGround ==
    (proj0.position.z = Zero /\ proj0.velocity.z = Zero) =>
        /\ pc \in {"entry", "loop", "return", "done"}
        /\ iters = 0
        /\ proj = proj0
        /\ Returned => (isGrounded(proj) /\ Len(trajectory) = 1
                        /\ trajectory[1] = proj0.position)

C8_Witness ==
    /\ Returned /\ proj0.position.z = Zero /\ proj0.velocity.z = Zero
    /\ proj0.velocity.x # Zero /\ wind # ZeroVector /\ Less(Zero, timeStep)
    /\ Less(getTime(proj), maxTime)

ZeroDragAndMagnus ==
    /\ proj0.airDensity = Zero \/ proj0.dragCoefficient = Zero
    /\ proj0.S = Zero

ImpactSpeed ==
    Sqrt(Add(Mul(proj0.velocity.z, proj0.velocity.z),
             Mul(Mul(FromInt(2), GRAVITY), proj0.position.z)))
ImpactTime == Div(Add(proj0.velocity.z, ImpactSpeed), GRAVITY)
RelativeError == Dec(0, 1, 1000)

\* C10: in the validation run without air resistance (position (0,0,10),
\* velocity (15,5,15), no spin, no drag, timeStep 0.001, maxTime 10, no wind)
\* the final sample of the returned trajectory has a height within one time
\* step's fall of 0 and a time within 1e-3 relative error of the closed-form
\* impact time
C10_ValidationAgreesWithClosedForm ==
    Returned =>
        /\ Leq(Zero, getFinalPoint(trajectory).z)
        /\ Leq(getFinalPoint(trajectory).z, Mul(ImpactSpeed, timeStep))
        /\ Leq(Abs(Sub(getFinalPoint(trajectory).t, ImpactTime)),
               Mul(RelativeError, ImpactTime))

C10_Witness ==
    /\ Returned /\ hit /\ proj0 = valadationWithoutAirResistance
    /\ Len(trajectory) > 1 /\ Less(getFinalPoint(trajectory).t, maxTime)

(***************************************************************************)
(* Properties of the range on flat ground                                  *)
(***************************************************************************)
\* the horizontal distance of the final sample from the launch point
HorizontalDistance ==
    magnitude(Vector3D(Sub(getFinalPoint(trajectory).x, proj0.position.x),
                       Sub(getFinalPoint(trajectory).y, proj0.position.y), Zero))

\* v0^2 * sin(2 theta) / g, with sin(2 theta) = 2 * (vz / v0) * (vh / v0) for
\* the launch velocity's vertical part vz and horizontal part vh
ClosedFormRange ==
    Div(Mul(Mul(FromInt(2), magnitude(Vector3D(proj0.velocity.x, proj0.velocity.y, Zero))),
            proj0.velocity.z),
        GRAVITY)

\* the constant of the O(h^4) bound, in m/s^4
FourthOrderConstant == FromInt(100)

\* C11: a zero-drag, zero-spin, zero-wind run launched from flat ground ends
\* with its final sample at the closed-form range v0^2 sin(2 theta) / g within
\* FourthOrderConstant * timeStep^4
C11_RangeWithinFourthOrder ==
    Returned =>
        Leq(Abs(Sub(HorizontalDistance, ClosedFormRange)),
            Mul(FourthOrderConstant, Mul(Mul(timeStep, timeStep), Mul(timeStep, timeStep))))

(***************************************************************************)
(* Properties of the validation runs with and without air resistance       *)
(***************************************************************************)
\* a horizontal distance between the ranges of the two runs: the closed-form
\* zero-drag range of the common launch less the relative error of C10
SeparatingRange ==
    Mul(magnitude(Vector3D(proj0.velocity.x, proj0.velocity.y, Zero)),
        Mul(ImpactTime, Sub(One, RelativeError)))

\* C12: from position (0,0,10) with velocity (15,5,15), no spin, no wind,
\* timeStep 0.001 and maxTime 10, the final sample of the run with drag is
\* strictly nearer to the launch point, horizontally, than the final sample
\* of the run without drag: the range of the run without drag is at least
\* SeparatingRange and the range of the run with drag is below it
C12_DragShortensRange ==
    Returned =>
        IF proj0 = valadationWithoutAirResistance
        THEN Leq(SeparatingRange, HorizontalDistance)
        ELSE Less(HorizontalDistance, SeparatingRange)

C12_Witness ==
    /\ Returned /\ proj0 = valadationWithAirResistance /\ hit
    /\ Less(Zero, proj0.dragCoefficient) /\ Less(Zero, proj0.airDensity)
    /\ Less(Zero, HorizontalDistance) /\ Less(getFinalPoint(trajectory).t, maxTime)

(***************************************************************************)
(* Properties of calculateAcceleration                                     *)
(***************************************************************************)
RelativeVelocity == VecSub(proj0.velocity, wind)
Called == pc \in {"once", "twice"}

\* no division of the call divides by zero, and at zero relative velocity the
\* drag force and the Magnus force are the zero vector
NoDivisionByZero ==
    /\ Zero \notin accelerationDivisors(proj0, wind)
    /\ RelativeVelocity = ZeroVector =>
        /\ dragForceAt(proj0, RelativeVelocity, magnitude(RelativeVelocity)) = ZeroVector
        /\ VecScale(magnusCross(proj0.spin, RelativeVelocity), proj0.S) = ZeroVector

\* the rounding allowed between (mass * g) / mass and g
RoundingTolerance == Dec(0, 1, 1000000)

\* C13 as stated: for mass > 0 no division by zero, and at zero relative
\* velocity the returned acceleration is exactly (0, 0, -g)
C13_Original ==
    Less(Zero, proj0.mass) =>
        /\ NoDivisionByZero
        /\ (Called /\ RelativeVelocity = ZeroVector) =>
            loc.first = Vector3D(Zero, Zero, Neg(GRAVITY))

\* C13: for mass > 0 no division by zero, and at zero relative velocity the
\* drag and Magnus forces are zero and the returned acceleration is
\* (0, 0, (-mass * g) / mass), which is -g within the rounding of the
\* product and the quotient
C13_ForceModelTotal ==
    Less(Zero, proj0.mass) =>
        /\ NoDivisionByZero
        /\ (Called /\ RelativeVelocity = ZeroVector) =>
            /\ loc.first.x = Zero
            /\ loc.first.y = Zero
            /\ loc.first.z = Div(Mul(Neg(proj0.mass), GRAVITY), proj0.mass)
            /\ Leq(Abs(Add(loc.first.z, GRAVITY)), RoundingTolerance)

C13_Witness ==
    /\ pc = "once" /\ Less(Zero, proj0.mass) /\ RelativeVelocity = ZeroVector
    /\ proj0.velocity # ZeroVector /\ proj0.spin # ZeroVector /\ proj0.S # Zero
    /\ Less(Zero, proj0.airDensity) /\ Less(Zero, proj0.dragCoefficient)

C15_DependsOnRelativeVelocity ==
    Called =>
        loc.first = calculateAcceleration(setVelocity(proj0, RelativeVelocity),
                                          Vector3D(Zero, Zero, Zero))

C15_Witness ==
    /\ pc = "once" /\ wind # ZeroVector /\ RelativeVelocity # ZeroVector
    /\ proj0.velocity # ZeroVector
    /\ Less(Zero, proj0.airDensity) /\ Less(Zero, proj0.dragCoefficient)
    /\ proj0.S # Zero /\ magnusCross(proj0.spin, RelativeVelocity) # ZeroVector

\* every component of a is within RoundingTolerance of that of b
Close(a, b) ==
    /\ Leq(Abs(Sub(a.x, b.x)), RoundingTolerance)
    /\ Leq(Abs(Sub(a.y, b.y)), RoundingTolerance)
    /\ Leq(Abs(Sub(a.z, b.z)), RoundingTolerance)

ZeroDrag == proj0.airDensity = Zero \/ proj0.dragCoefficient = Zero
OtherMasses == {Dec(0, 1, 2), FromInt(2), Dec(1, 7000001, 10000000), Dec(0, 27, 10000)}

\* the projectile of the call, built with mass m
WithMass(m) ==
    Projectile(proj0.position, proj0.velocity, proj0.spin, m, proj0.radius,
               proj0.airDensity, loc.SOverM, proj0.dragCoefficient)

\* C16: the acceleration is (gravity + drag + Magnus) / mass with gravity
\* (0, 0, -mass * 9.81) and Magnus S * (spin x (velocity - wind)), where
\* S = SOverM * mass; with zero drag it is (0, 0, -9.81) + SOverM * (spin x
\* (velocity - wind)), the same for every mass
C16_NetAcceleration ==
    /\ proj0.S = Mul(loc.SOverM, proj0.mass)
    /\ Called =>
        loc.first =
            VecDiv(VecAdd(VecAdd(Vector3D(Zero, Zero, Mul(Neg(proj0.mass), GRAVITY)),
                                 dragForceAt(proj0, RelativeVelocity,
                                             magnitude(RelativeVelocity))),
                          VecScale(magnusCross(proj0.spin, RelativeVelocity), proj0.S)),
                   proj0.mass)
    /\ (Called /\ ZeroDrag) =>
        /\ Close(loc.first,
                 VecAdd(Vector3D(Zero, Zero, Neg(GRAVITY)),
                        VecScale(magnusCross(proj0.spin, RelativeVelocity), loc.SOverM)))
        /\ \A m \in OtherMasses :
            Close(loc.first, calculateAcceleration(WithMass(m), wind))

C16_Witness ==
    /\ pc = "once" /\ ZeroDrag /\ loc.SOverM # Zero /\ proj0.mass # One
    /\ wind # ZeroVector
    /\ magnusCross(proj0.spin, RelativeVelocity).x # Zero
    /\ magnusCross(proj0.spin, RelativeVelocity).z # Zero

(***************************************************************************)
(* Properties of the Vector3D operations                                   *)
(***************************************************************************)
Normalizing == pc \in {"a.normalize()", "a.normalized()"}

\* sqrt(x^2 + y^2 + z^2) of the operand a
EuclideanNorm ==
    Sqrt(Add(Add(Mul(loc.a.x, loc.a.x), Mul(loc.a.y, loc.a.y)), Mul(loc.a.z, loc.a.z)))

\* every component of the operand a divided by its norm
ComponentsOverNorm ==
    Vector3D(Div(loc.a.x, EuclideanNorm), Div(loc.a.y, EuclideanNorm),
             Div(loc.a.z, EuclideanNorm))

C18_ComponentWise ==
    /\ [][loc'.a = loc.a /\ loc'.b = loc.b /\ loc'.scalar = loc.scalar]_vars
    /\ [](pc = "a + b" =>
            loc.result = Vector3D(Add(loc.a.x, loc.b.x), Add(loc.a.y, loc.b.y),
                                  Add(loc.a.z, loc.b.z)))
    /\ [](pc = "a - b" =>
            loc.result = Vector3D(Sub(loc.a.x, loc.b.x), Sub(loc.a.y, loc.b.y),
                                  Sub(loc.a.z, loc.b.z)))
    /\ [](pc = "a * scalar" =>
            loc.result = Vector3D(Mul(loc.a.x, loc.scalar), Mul(loc.a.y, loc.scalar),
                                  Mul(loc.a.z, loc.scalar)))
    /\ [](pc = "a / scalar" =>
            loc.result = Vector3D(Div(loc.a.x, loc.scalar), Div(loc.a.y, loc.scalar),
                                  Div(loc.a.z, loc.scalar)))

C18_Witness ==
    /\ pc = "a - b" /\ loc.a # loc.b /\ loc.a # ZeroVector /\ loc.b # ZeroVector
    /\ loc.result.x # Zero /\ loc.result.y # Zero /\ loc.result.z # Zero

(***************************************************************************)
(* Properties of Trajectory                                                *)
(***************************************************************************)
\* C19: the points of a trajectory are exactly the added points in call order
\* and no operation removes or reorders one; getPoints() returns them,
\* getFinalPoint() returns the point added last and, on an empty trajectory,
\* the point (0,0,0,0)
C19_AppendOnly ==
    /\ [](trajectory = loc.added)
    /\ [][/\ Len(trajectory') >= Len(trajectory)
          /\ SubSeq(trajectory', 1, Len(trajectory)) = trajectory]_vars
    /\ [](pc = "getPoints" => loc.points = loc.added)
    /\ [](pc = "getFinalPoint" =>
            loc.final = IF loc.added = <<>> THEN Vector4D(Zero, Zero, Zero, Zero)
                        ELSE loc.added[Len(loc.added)])

C19_Witness ==
    /\ pc = "getFinalPoint" /\ Len(loc.added) = 3
    /\ loc.added[1] # loc.added[2] /\ loc.added[2] # loc.added[3]
    /\ loc.final = loc.added[3] /\ loc.points = <<>>

(***************************************************************************)
(* Properties of the parameters of a run                                   *)
(***************************************************************************)
\* C20: throughout a run of rk4Simulation the projectile's spin, mass, radius,
\* dragCoefficient, airDensity and S and the wind keep the values they had at
\* entry
C20_ParametersReadOnly ==
    /\ [](/\ proj.spin = proj0.spin
          /\ proj.mass = proj0.mass
          /\ proj.radius = proj0.radius
          /\ proj.dragCoefficient = proj0.dragCoefficient
          /\ proj.airDensity = proj0.airDensity
          /\ proj.S = proj0.S)
    /\ [][wind' = wind /\ proj0' = proj0]_vars

C20_Witness ==
    /\ Returned /\ iters >= 2 /\ proj0.spin # ZeroVector /\ wind # ZeroVector
    /\ proj.position # proj0.position /\ proj.velocity # proj0.velocity
    /\ proj.position.t # proj0.position.t

(***************************************************************************)
(* Properties of concurrent runs                                           *)
(***************************************************************************)
\* the variables of a single call as a call's state
ThisCall ==
    [proj |-> proj, trajectory |-> trajectory, loc |-> loc, pc |-> pc,
     iters |-> iters, hit |-> hit]

\* Statement is the step of rk4Simulation: every step of Spec is a Statement
StepsAreStatements == [][ThisCall' = Statement(ThisCall)]_vars

Written == pc = "written" /\ loc.is_open

\* the file is the info block, the header Time,X,Y,Z and one row t,x,y,z per
\* sample, in sample order
HeaderAndRows ==
    LET first == Len(loc.info) + 1
    IN  /\ SubSeq(loc.file, 1, Len(loc.info)) = loc.info
        /\ loc.file[first + 1] = <<"Time", "X", "Y", "Z">>
        /\ Len(loc.file) = first + 1 + Len(trajectory)
        /\ \A i \in Samples :
            loc.file[first + 1 + i] =
                <<Shown(trajectory[i].t), Shown(trajectory[i].x),
                  Shown(trajectory[i].y), Shown(trajectory[i].z)>>

IncreasingTime == \A i, j \in Samples : i < j => Less(trajectory[i].t, trajectory[j].t)

FactorialTable ==
    <<1, 2, 6, 24, 120, 720, 5040, 40320, 362880, 3628800, 39916800, 479001600>>

\* C23: factorial(n) returns 1 for n <= 1 and n * factorial(n - 1) otherwise,
\* which is n! for n >= 0 (1, 1, 6, 120 for 0, 1, 3, 5), and the recursion
\* terminates for every n
C23_Factorial ==
    /\ <>(pc = "returned")
    /\ [](pc = "returned" =>
            /\ loc.n <= 1 => loc.value = 1
            /\ loc.n >= 1 => loc.value = FactorialTable[loc.n]
            /\ loc.n = 3 => loc.value = 6
            /\ loc.n = 5 => loc.value = 120)
    /\ [][pc = "return" /\ loc.waiting # <<>> =>
            /\ loc'.value = Last(loc.waiting) * loc.value
            /\ \/ Len(loc.waiting) = 1 /\ Last(loc.waiting) = loc.n
               \/ Len(loc.waiting) > 1
                  /\ Last(loc.waiting) + 1 = loc.waiting[Len(loc.waiting) - 1]]_vars

C23_Witness == pc = "returned" /\ loc.n = 5 /\ loc.value = 120

(***************************************************************************)
(* Properties of one RK4 step                                              *)
(***************************************************************************)
\* force(v, w) of the projectile's parameters: the acceleration at velocity v
ForceAt(p, v) == calculateAcceleration([p EXCEPT !.velocity = v], wind)

\* step(state, params, wind, h): the new state as a function of the old one
PureStep(p) ==
    LET v0 == p.velocity
        k1_v == VecScale(ForceAt(p, v0), timeStep)
        k1_x == VecScale(v0, timeStep)
        v1 == VecAdd(v0, VecScale(k1_v, Half))
        k2_v == VecScale(ForceAt(p, v1), timeStep)
        k2_x == VecScale(v1, timeStep)
        v2 == VecAdd(v0, VecScale(k2_v, Half))
        k3_v == VecScale(ForceAt(p, v2), timeStep)
        k3_x == VecScale(v2, timeStep)
        v3 == VecAdd(v0, k3_v)
        k4_v == VecScale(ForceAt(p, v3), timeStep)
        k4_x == VecScale(v3, timeStep)
        new_v == VecAdd(v0, WeightedAverage(k1_v, k2_v, k3_v, k4_v))
        delta_p == WeightedAverage(k1_x, k2_x, k3_x, k4_x)
    IN  [p EXCEPT !.velocity = new_v,
                  !.position = Vector4D(Add(p.position.x, delta_p.x),
                                        Add(p.position.y, delta_p.y),
                                        Add(p.position.z, delta_p.z),
                                        Add(p.position.t, timeStep))]

\* the projectile as the current iteration found it
AtStepStart == [proj EXCEPT !.position = loc.pos0, !.velocity = loc.vel0]

\* the slope a stage stored is the force at the projectile's current velocity
EvaluatedAt(k_v, vel) ==
    /\ proj.velocity = vel
    /\ k_v = VecScale(ForceAt(AtStepStart, vel), timeStep)

\* C24: a loop iteration makes one force evaluation in each of its four
\* stages, at the velocities v0, v0 + k1_v/2, v0 + k2_v/2 and v0 + k3_v, and
\* then leaves the projectile in the state the pure step function gives:
\* velocity v0 + (k1_v + 2 k2_v + 2 k3_v + k4_v)/6, position p0 + (k1_x + 2 k2_x
\* + 2 k3_x + k4_x)/6 and time t0 + h
C24_StepEqualsPureStep ==
    /\ [](pc = "k2" => EvaluatedAt(loc.k1_v, loc.vel0))
    /\ [](pc = "k3" => EvaluatedAt(loc.k2_v, VecAdd(loc.vel0, VecScale(loc.k1_v, Half))))
    /\ [](pc = "k4" => EvaluatedAt(loc.k3_v, VecAdd(loc.vel0, VecScale(loc.k2_v, Half))))
    /\ [](pc = "update" => EvaluatedAt(loc.k4_v, VecAdd(loc.vel0, loc.k3_v)))
    /\ [](pc \in {"ground", "add"} =>
            /\ proj = PureStep(AtStepStart)
            /\ proj.velocity =
                 VecAdd(loc.vel0, WeightedAverage(loc.k1_v, loc.k2_v, loc.k3_v, loc.k4_v))
            /\ proj.position.t = Add(loc.pos0.t, timeStep))
    /\ [][/\ pc = "k1" => pc' = "k2"
          /\ pc = "k2" => pc' = "k3"
          /\ pc = "k3" => pc' = "k4"
          /\ pc = "k4" => pc' = "update"]_vars

C24_Witness ==
    /\ pc = "add" /\ iters >= 2
    /\ proj.airDensity # Zero /\ proj.dragCoefficient # Zero /\ wind # ZeroVector
    /\ loc.k1_v # loc.k2_v /\ loc.k2_v # loc.k3_v /\ loc.k3_v # loc.k4_v
    /\ proj.velocity # VecAdd(loc.vel0, loc.k3_v)

(***************************************************************************)
(* Properties of the output filename                                       *)
(***************************************************************************)
\* C25: the filename Run passes to CSVPrint names no existing file, the file
\* written has the smallest index N >= 1 for which no file trajectoryN.csv
\* exists, and a file the process wrote before is never written again
C25_FilenameIsFresh ==
    /\ [](pc = "CSVPrint" =>
            /\ loc.index >= 1
            /\ loc.index \notin loc.files
            /\ loc.writable => \A n \in 1..(loc.index - 1) : n \in loc.files)
    /\ [](\A i, j \in 1..Len(loc.written) : i # j => loc.written[i] # loc.written[j])
    /\ [][loc.files \subseteq loc'.files]_vars

C25_Witness ==
    /\ pc = "Run" /\ Len(loc.written) >= 2
    /\ loc.written[1] >= 2
    /\ loc.written[2] > loc.written[1] + 1

(***************************************************************************)
(* Properties of drag-free runs                                            *)
(***************************************************************************)
NoDragNoMagnus ==
    /\ proj0.airDensity = Zero \/ proj0.dragCoefficient = Zero
    /\ proj0.S = Zero \/ proj0.spin = ZeroVector

\* the time k steps take
Elapsed(k) == Mul(FromInt(k), timeStep)

\* p0 + v0 t + (1/2) (0, 0, -g) t^2 at time t0 + t
BallisticPosition(t) ==
    Vector4D(Add(proj0.position.x, Mul(proj0.velocity.x, t)),
             Add(proj0.position.y, Mul(proj0.velocity.y, t)),
             Sub(Add(proj0.position.z, Mul(proj0.velocity.z, t)),
                 Mul(Mul(Half, GRAVITY), Mul(t, t))),
             Add(proj0.position.t, t))

\* v0 + (0, 0, -g) t
BallisticVelocity(t) ==
    Vector3D(proj0.velocity.x, proj0.velocity.y, Sub(proj0.velocity.z, Mul(GRAVITY, t)))

\* C26: without drag and Magnus force the sample recorded after k steps is
\* p0 + v0 (k h) + (1/2)(0, 0, -g)(k h)^2 at time t0 + k h, and the velocity
\* after k completed steps is v0 + (0, 0, -g) k h
C26_BallisticExact ==
    NoDragNoMagnus =>
        /\ \A i \in Samples : trajectory[i] = BallisticPosition(Elapsed(i - 1))
        /\ pc = "loop" =>
            /\ Len(trajectory) = iters + 1
            /\ proj.velocity = BallisticVelocity(Elapsed(iters))
            /\ proj.position = BallisticPosition(Elapsed(iters))

C26_Witness ==
    /\ NoDragNoMagnus /\ pc = "loop" /\ iters >= 3
    /\ proj0.S # Zero /\ proj0.airDensity # Zero /\ wind # ZeroVector
    /\ proj0.velocity.z # Zero /\ proj0.velocity.x # Zero
    /\ timeStep = Dec(0, 1, 2)

(***************************************************************************)
(* Properties of the recorded heights                                      *)
(***************************************************************************)
\* C27: if the initial height is >= 0, every sample of the trajectory has
\* z >= 0, whatever the velocity, wind, timeStep and maxTime
C27_NoSampleBelowGround ==
    Leq(Zero, proj0.position.z) => \A i \in Samples : Leq(Zero, trajectory[i].z)

C27_Witness ==
    /\ Returned /\ hit /\ iters >= 3 /\ Len(trajectory) = iters
    /\ Leq(Zero, proj0.position.z)
    /\ proj0.airDensity # Zero /\ proj0.dragCoefficient # Zero

(***************************************************************************)
(* Properties of the grounded state on return                              *)
(***************************************************************************)
\* the run returned grounded after at least one step
GroundedAfterStep == Returned /\ iters >= 1 /\ isGrounded(proj)

\* the projectile lies on the ground
HeightZero == GroundedAfterStep => proj.position.z = Zero

\* C28: when rk4Simulation returns grounded after at least one step, the
\* projectile's height is exactly 0 and its velocity is the zero vector, also
\* after a step that lands exactly on z = 0 with downward velocity
C28_GroundedAtRest ==
    GroundedAfterStep => proj.position.z = Zero /\ proj.velocity = ZeroVector

(***************************************************************************)
(* Properties of the generic rk4Simulation                                 *)
(***************************************************************************)
\* C29: the trajectory's first element is the initial state and it gains one
\* element per loop iteration; on return the caller's state equals the last
\* element, stopCondition is false on it and true on every other element, and
\* if stopCondition is false on the initial state the trajectory has exactly
\* one element and the state is unchanged
C29_GenericTrajectory ==
    /\ pc # "entry" => trajectory[1] = proj0
    /\ pc \in {"while", "return", "done"} => Len(trajectory) = iters + 1
    /\ pc \in {"k1", "k2", "k3", "k4", "update"} => Len(trajectory) = iters
    /\ Returned =>
        /\ proj = trajectory[Len(trajectory)]
        /\ ~stopCondition(loc.stopCondition, proj)
        /\ \A i \in 1..(Len(trajectory) - 1) : stopCondition(loc.stopCondition, trajectory[i])
        /\ ~stopCondition(loc.stopCondition, proj0) => Len(trajectory) = 1 /\ proj = proj0

C29_Witness ==
    /\ Returned /\ Len(trajectory) >= 4 /\ loc.stopCondition.kind = "angle"
    /\ proj # proj0 /\ trajectory[2] # trajectory[3]

\* a run whose initial state does not satisfy stopCondition has returned
C29_WitnessNoStep ==
    Returned /\ ~stopCondition(loc.stopCondition, proj0) /\ loc.derivatives = "damped oscillator"

(***************************************************************************)
(* Properties of the lift coupling factor                                  *)
(***************************************************************************)
\* the stored factor is the supplied SOverM times the current mass
CouplingFollowsMass == proj.S = Mul(loc.SOverM, proj.mass)

\* C30: after any sequence of construction, setMass, setS and setAll calls
\* the stored S equals the SOverM supplied last times the current mass, so
\* the acceleration calculateAcceleration gives (here without drag) is
\* gravity plus SOverM * (spin x relative velocity)
C30_LiftCouplingFollowsMass ==
    /\ CouplingFollowsMass
    /\ pc = "calculateAcceleration" =>
        Close(loc.acceleration,
              VecAdd(Vector3D(Zero, Zero, Neg(GRAVITY)),
                     VecScale(magnusCross(proj.spin, VecSub(proj.velocity, wind)),
                              loc.SOverM)))

\* the claim holds as long as setMass is not called with another mass
C30_WithoutSetMass ==
    [][CouplingFollowsMass /\ proj'.mass = proj.mass => CouplingFollowsMass']_vars

=============================================================================
